---- MODULE Spec2Model ----
(***************************************************************************)
(* Student grading system (FastAPI + SQLModel): the database tables, the   *)
(* upload directory, the clock and the last HTTP response, with one action *)
(* per request handler.                                                    *)
(*                                                                         *)
(* Conventions                                                             *)
(*   - an Optional value is a sequence of length <= 1: None is <<>> and    *)
(*     a present value x is <<x>>;                                         *)
(*   - a table with an auto-increment primary key is a sequence of rows,   *)
(*     row i holding id i (no handler deletes a row);                      *)
(*   - time is counted in minutes (the unit of the token expiry);          *)
(*   - last is the response to the most recent request: the operation, its *)
(*     request, the HTTP status and the body;                              *)
(*   - bearers is the set of Authorization headers the clients send;       *)
(*   - inflight holds the requests whose handlers run concurrently, each   *)
(*     with its position in the handler;                                   *)
(*   - startup is the position of the startup hook (create_db_and_tables). *)
(***************************************************************************)
EXTENDS Integers, Sequences, FiniteSets, TLC

VARIABLES users, classrooms, enrollments, lessons, assignments, submissions,
          files, now, last, bearers, inflight, startup

vars == <<users, classrooms, enrollments, lessons, assignments, submissions,
          files, now, last, bearers, inflight, startup>>

\* What a request handler served on its own leaves alone: the Authorization
\* headers the clients send, the requests being served concurrently and the
\* startup hook
outside == <<bearers, inflight, startup>>

db == <<users, classrooms, enrollments, lessons, assignments, submissions>>

None == <<>>
Some(x) == <<x>>

(***************************************************************************)
(* Bounds of the model.                                                    *)
(***************************************************************************)
MaxClock == 1
MaxClassrooms == 2
MaxLessons == 2
MaxAssignments == 2
MaxSubmissions == 2

(***************************************************************************)
(* models/models.py, core/config.py                                        *)
(***************************************************************************)
STUDENT == "STUDENT"
TEACHER == "TEACHER"
UserRole == {STUDENT, TEACHER}

ACCESS_TOKEN_EXPIRE_MINUTES == 60
MAX_UPLOAD_SIZE == 10 * 1024 * 1024

\* session.get(Table, id) on a table with an integer primary key
Get(table, id) == IF id \in 1..Len(table) THEN Some(table[id]) ELSE None

\* session.add(row); session.commit(); session.refresh(row): the store assigns
\* the next id
Insert(table, row) == Append(table, [row EXCEPT !.id = Len(table) + 1])

(***************************************************************************)
(* Strings of decimal digits: str(user.id) in login and int(sub) in        *)
(* get_current_user.  A string is a sequence of one-character strings.     *)
(***************************************************************************)
DigitChars == <<"0", "1", "2", "3", "4", "5", "6", "7", "8", "9">>

RECURSIVE IntToStr(_)
IntToStr(n) ==
    IF n < 10 THEN <<DigitChars[n + 1]>>
    ELSE IntToStr(n \div 10) \o <<DigitChars[(n % 10) + 1]>>

DigitValue(c) == (CHOOSE i \in 1..10 : DigitChars[i] = c) - 1

RECURSIVE DigitsToInt(_)
DigitsToInt(s) ==
    IF Len(s) = 0 THEN 0
    ELSE 10 * DigitsToInt(SubSeq(s, 1, Len(s) - 1)) + DigitValue(s[Len(s)])

\* int(s): None stands for ValueError
ParseInt(s) ==
    IF Len(s) > 0 /\ \A i \in 1..Len(s) : \E d \in 1..10 : DigitChars[d] = s[i]
    THEN Some(DigitsToInt(s))
    ELSE None

(***************************************************************************)
(* core/security.py: passwords.  A password is described by its text, its  *)
(* length in characters and its length in UTF-8 bytes.  The passlib        *)
(* bcrypt_sha256 scheme is taken as ideal: a hash verifies exactly the     *)
(* secret it was made from (the random salt is left out).                  *)
(***************************************************************************)
Sha256Hex(password) ==
    [text |-> <<"sha256">> \o password.text, chars |-> 64, bytes |-> 64]

PwdContextHash(secret) == [scheme |-> "bcrypt_sha256", secret |-> secret]

PwdContextVerify(secret, hashed) == hashed.secret = secret

verify_password(plain_password, hashed_password) ==
    PwdContextVerify(plain_password, hashed_password)

get_password_hash(password) ==
    IF password.bytes > 72 THEN PwdContextHash(Sha256Hex(password))
    ELSE PwdContextHash(password)

(***************************************************************************)
(* core/security.py: tokens.  A token is its payload and whether its       *)
(* signature verifies under SECRET_KEY.                                    *)
(***************************************************************************)
\* `expires_minutes or settings.ACCESS_TOKEN_EXPIRE_MINUTES`: None and 0 are falsy
ExpireDelta(expires_minutes) ==
    IF expires_minutes = None \/ expires_minutes = Some(0)
    THEN ACCESS_TOKEN_EXPIRE_MINUTES
    ELSE expires_minutes[1]

create_access_token(data, expires_minutes, clock) ==
    [sub |-> data.sub, role |-> data.role,
     exp |-> clock + ExpireDelta(expires_minutes), signed |-> TRUE]

\* jose.jwt.decode: JWTError (None) on a bad signature or when exp < now
decode_access_token(token, clock) ==
    IF ~token.signed THEN None
    ELSE IF token.exp < clock THEN None
    ELSE Some(token)

(***************************************************************************)
(* api/deps.py                                                             *)
(***************************************************************************)
\* None stands for the 401 credentials_exception; bearer is the Optional token
\* of the Authorization header (oauth2_scheme answers 401 when it is missing)
get_current_user(bearer, session_users, clock) ==
    IF bearer = None THEN None
    ELSE LET payload == decode_access_token(bearer[1], clock) IN
         IF payload = None THEN None
         ELSE IF payload[1].sub = None THEN None
         ELSE LET user_id == ParseInt(payload[1].sub[1]) IN
              IF user_id = None THEN None
              ELSE Get(session_users, user_id[1])

\* A role check that does not wait for the identity: 403 for whoever is not a
\* resolved teacher
require_teacher_role_first(current_user) ==
    IF current_user = None \/ current_user[1].role # TEACHER THEN 403
    ELSE 200

\* The status require_teacher raises, 200 when it passes the user through
require_teacher(current_user) ==
    IF current_user = None THEN 401
    ELSE IF current_user[1].role # TEACHER THEN 403
    ELSE 200

(***************************************************************************)
(* The last response                                                       *)
(***************************************************************************)
Response(op, req, status, body) ==
    [op |-> op, req |-> req, status |-> status, body |-> body]

NoResponse == Response("none", None, 0, None)

(***************************************************************************)
(* api/auth.py                                                             *)
(***************************************************************************)
Emails == {"a@x.io", "b@x.io"}

PwShort == [text |-> <<"short">>, chars |-> 7, bytes |-> 7]
PwMin == [text |-> <<"min">>, chars |-> 8, bytes |-> 8]
PwWide == [text |-> <<"wide">>, chars |-> 25, bytes |-> 75]
PwMax == [text |-> <<"max">>, chars |-> 128, bytes |-> 128]
PwLong == [text |-> <<"long">>, chars |-> 129, bytes |-> 129]

Passwords == {PwShort, PwMin, PwWide, PwMax, PwLong}

\* Field(min_length=8, max_length=128) counts characters
PasswordValid(password) == password.chars >= 8 /\ password.chars <= 128

UserByEmail(email) ==
    IF \E i \in 1..Len(users) : users[i].email = email
    THEN Some(users[CHOOSE i \in 1..Len(users) : users[i].email = email])
    ELSE None

UserRead(user) ==
    [id |-> user.id, email |-> user.email, full_name |-> user.full_name,
     role |-> user.role]

\* A registration check that lets the same email register under another role
EmailTakenSameRole(payload) ==
    \E i \in 1..Len(users) :
        users[i].email = payload.email /\ users[i].role = payload.role

\* The existence check of register_user
EmailTaken(payload) == UserByEmail(payload.email) # None

\* The User row register_user builds
NewUser(payload) ==
    [id |-> 0, email |-> payload.email, full_name |-> payload.full_name,
     role |-> payload.role,
     hashed_password |-> get_password_hash(payload.password)]

\* register_user, reached as `op` (the three routes share the handler)
Register(op, payload) ==
    IF ~PasswordValid(payload.password)
    THEN /\ last' = Response(op, payload, 422, None)
         /\ UNCHANGED users
    ELSE IF EmailTaken(payload)
    THEN /\ last' = Response(op, payload, 400, None)
         /\ UNCHANGED users
    ELSE /\ users' = Insert(users, NewUser(payload))
         /\ last' = Response(op, payload, 201, Some(UserRead(users'[Len(users')])))

UserCreate(email, password, role) ==
    [email |-> email, full_name |-> "name", password |-> password, role |-> role]

register_user ==
    /\ \E email \in Emails, password \in Passwords, role \in UserRole :
          Register("register_user", UserCreate(email, password, role))
    /\ UNCHANGED <<outside, classrooms, enrollments, lessons, assignments, submissions,
                   files, now>>

register_student ==
    /\ \E email \in Emails, password \in Passwords :
          Register("register_student", UserCreate(email, password, STUDENT))
    /\ UNCHANGED <<outside, classrooms, enrollments, lessons, assignments, submissions,
                   files, now>>

register_teacher ==
    /\ \E email \in Emails, password \in Passwords :
          Register("register_teacher", UserCreate(email, password, TEACHER))
    /\ UNCHANGED <<outside, classrooms, enrollments, lessons, assignments, submissions,
                   files, now>>

\* The token login issues: sub is str(user.id), the expiry is the default
LoginToken(user, clock) ==
    create_access_token([sub |-> Some(IntToStr(user.id)), role |-> user.role],
                        None, clock)

TokenBody(user) ==
    [access_token |-> LoginToken(user, now),
     token_type |-> "bearer", user_id |-> user.id, role |-> user.role]

\* The body of login and login_json after request validation
Authenticate(op, req) ==
    LET user == UserByEmail(req.email) IN
    IF user = None \/ ~verify_password(req.password, user[1].hashed_password)
    THEN last' = Response(op, req, 401, None)
    ELSE last' = Response(op, req, 200, Some(TokenBody(user[1])))

\* OAuth2PasswordRequestForm: no length validation
login ==
    /\ \E email \in Emails, password \in Passwords :
          Authenticate("login", [email |-> email, password |-> password])
    /\ UNCHANGED <<outside, users, classrooms, enrollments, lessons, assignments,
                   submissions, files, now>>

\* LoginRequest validates the password length
login_json ==
    /\ \E email \in Emails, password \in Passwords :
          LET req == [email |-> email, password |-> password] IN
          IF ~PasswordValid(password)
          THEN last' = Response("login_json", req, 422, None)
          ELSE Authenticate("login_json", req)
    /\ UNCHANGED <<outside, users, classrooms, enrollments, lessons, assignments,
                   submissions, files, now>>

(***************************************************************************)
(* A direct call of core/security.py create_access_token for a registered  *)
(* user with an explicit expires_minutes (the handlers always pass None).  *)
(***************************************************************************)
ExpiryChoices == {None, Some(0 - 1), Some(0), Some(1)}

CreateAccessToken ==
    /\ \E i \in 1..Len(users), expires_minutes \in ExpiryChoices :
          LET data == [sub |-> Some(IntToStr(users[i].id)), role |-> users[i].role] IN
          last' = Response("create_access_token",
                           [data |-> data, expires_minutes |-> expires_minutes],
                           200,
                           Some(create_access_token(data, expires_minutes, now)))
    /\ UNCHANGED <<outside, users, classrooms, enrollments, lessons, assignments,
                   submissions, files, now>>

(***************************************************************************)
(* api/users.py                                                            *)
(***************************************************************************)
\* Bearers that current-user resolution must refuse: no header, a bad
\* signature, no sub, a sub that is no integer, a sub naming no user
BadBearers ==
    { None,
      Some([sub |-> Some(<<"1">>), role |-> TEACHER, exp |-> 60, signed |-> FALSE]),
      Some([sub |-> None, role |-> TEACHER, exp |-> 60, signed |-> TRUE]),
      Some([sub |-> Some(<<"a", "b">>), role |-> TEACHER, exp |-> 60, signed |-> TRUE]),
      Some([sub |-> Some(<<"1", "0">>), role |-> TEACHER, exp |-> 60, signed |-> TRUE]) }

\* The token the previous response handed out, if any
IssuedBearers ==
    IF last.op \in {"login", "login_json"} /\ last.status = 200
    THEN {Some(last.body[1].access_token)}
    ELSE IF last.op = "create_access_token" THEN {last.body}
    ELSE {}

read_current_user ==
    /\ \E bearer \in IssuedBearers \cup BadBearers :
          LET current_user == get_current_user(bearer, users, now) IN
          IF current_user = None
          THEN last' = Response("read_current_user", [bearer |-> bearer], 401, None)
          ELSE last' = Response("read_current_user", [bearer |-> bearer], 200,
                                Some(UserRead(current_user[1])))
    /\ UNCHANGED <<outside, users, classrooms, enrollments, lessons, assignments,
                   submissions, files, now>>

(***************************************************************************)
(* The clock                                                               *)
(***************************************************************************)
Tick ==
    /\ now < MaxClock
    /\ now' = now + 1
    /\ UNCHANGED <<outside, users, classrooms, enrollments, lessons, assignments,
                   submissions, files, last>>

(***************************************************************************)
(* The users the classroom, assignment, submission and grading scenarios   *)
(* start from: two teachers (ids 1, 2) and two students (ids 3, 4), as     *)
(* four registrations leave the User table, each holding the token a login *)
(* at time 0 issued; a request may also come with no Authorization header. *)
(***************************************************************************)
SeedUsers ==
    LET t1 == Insert(<<>>, NewUser(UserCreate("t1@x.io", PwMin, TEACHER)))
        t2 == Insert(t1, NewUser(UserCreate("t2@x.io", PwMin, TEACHER)))
        s1 == Insert(t2, NewUser(UserCreate("s1@x.io", PwMin, STUDENT)))
    IN Insert(s1, NewUser(UserCreate("s2@x.io", PwMin, STUDENT)))

Bearers == {Some(LoginToken(SeedUsers[i], 0)) : i \in 1..Len(SeedUsers)} \cup {None}

(***************************************************************************)
(* db/session.py create_db_and_tables, called by main.py on_startup.       *)
(* startup.pc is the position in the function: "for" at the head of the    *)
(* loop, "sleep" in the except clause before time.sleep, "returned" and    *)
(* "raised" once it is left; calls counts the create_all calls made, slept *)
(* the seconds slept, last_error is the local of that name.                *)
(***************************************************************************)
attempts == 20
delay_seconds == 1

\* The exceptions SQLModel.metadata.create_all raises while the server is away
CreateAllErrors == {"OperationalError", "InterfaceError"}

\* The startup hook about to run
Starting == [pc |-> "for", calls |-> 0, slept |-> 0, last_error |-> None]

\* The startup hook whose first create_all succeeded
Started == [pc |-> "returned", calls |-> 1, slept |-> 0, last_error |-> None]

\* try: SQLModel.metadata.create_all(engine); return
create_all_succeeds ==
    /\ startup.pc = "for"
    /\ startup.calls < attempts
    /\ startup' = [startup EXCEPT !.calls = @ + 1, !.pc = "returned"]
    /\ UNCHANGED <<db, files, now, last, bearers, inflight>>

\* except Exception as exc: last_error = exc
create_all_fails ==
    /\ startup.pc = "for"
    /\ startup.calls < attempts
    /\ \E exc \in CreateAllErrors :
          startup' = [startup EXCEPT
                         !.calls = @ + 1,
                         !.last_error = Some([type |-> exc, call |-> startup.calls + 1]),
                         !.pc = "sleep"]
    /\ UNCHANGED <<db, files, now, last, bearers, inflight>>

\* time.sleep(delay_seconds), then the next iteration of the loop
sleep ==
    /\ startup.pc = "sleep"
    /\ startup' = [startup EXCEPT !.slept = @ + delay_seconds, !.pc = "for"]
    /\ UNCHANGED <<db, files, now, last, bearers, inflight>>

\* range(attempts) is exhausted: `if last_error: raise last_error`
raise_last_error ==
    /\ startup.pc = "for"
    /\ startup.calls >= attempts
    /\ startup' = [startup EXCEPT
                      !.pc = IF startup.last_error # None THEN "raised"
                             ELSE "returned"]
    /\ UNCHANGED <<db, files, now, last, bearers, inflight>>

(***************************************************************************)
(* The state after startup: empty tables, an empty upload directory.       *)
(***************************************************************************)
Init ==
    /\ users = <<>>
    /\ classrooms = <<>>
    /\ enrollments = {}
    /\ lessons = <<>>
    /\ assignments = <<>>
    /\ submissions = <<>>
    /\ files = {}
    /\ now = 0
    /\ last = NoResponse
    /\ bearers = Bearers
    /\ inflight = <<>>
    /\ startup = Started

(***************************************************************************)
(* Registration, login and identity resolution.                            *)
(***************************************************************************)
NextAuth ==
    \/ register_user
    \/ register_student
    \/ register_teacher
    \/ login
    \/ login_json
    \/ CreateAccessToken
    \/ read_current_user
    \/ Tick

SpecAuth == Init /\ [][NextAuth]_vars

(***************************************************************************)
(* Claims about registration, login and tokens (SpecAuth).                 *)
(***************************************************************************)
RegisterOps == {"register_user", "register_student", "register_teacher"}
LoginOps == {"login", "login_json"}

\* A step that serves a request (every handler answers; Tick does not)
RequestStep == now' = now

\* C1: registering a teacher with an unregistered email and a password of 8 to
\* 128 characters and then logging in with the same email and password succeeds,
\* and the sub of the returned token resolves to the registered user id with
\* role TEACHER.
C1_RegisterThenLogin ==
    [][(/\ RequestStep
        /\ last.op \in RegisterOps
        /\ last.status = 201
        /\ last.body[1].role = TEACHER
        /\ last'.op \in LoginOps
        /\ last'.req.email = last.req.email
        /\ last'.req.password = last.req.password)
       => (/\ last'.status = 200
           /\ LET who == get_current_user(Some(last'.body[1].access_token),
                                          users', now')
              IN /\ who # None
                 /\ who[1].id = last.body[1].id
                 /\ who[1].role = TEACHER)]_vars

\* The round trip of C1 for the passwords of at most 72 UTF-8 bytes.
C1_RegisterThenLoginShort ==
    [][(/\ RequestStep
        /\ last.op \in RegisterOps
        /\ last.status = 201
        /\ last.body[1].role = TEACHER
        /\ last.req.password.bytes <= 72
        /\ last'.op \in LoginOps
        /\ last'.req.email = last.req.email
        /\ last'.req.password = last.req.password)
       => (/\ last'.status = 200
           /\ LET who == get_current_user(Some(last'.body[1].access_token),
                                          users', now')
              IN /\ who # None
                 /\ who[1].id = last.body[1].id
                 /\ who[1].role = TEACHER)]_vars

\* C5: a token made by create_access_token with an explicit expiry of 0 or of a
\* negative number of minutes is refused with 401 by current-user resolution on
\* its first use.
C5_NonPositiveExpiryRejected ==
    [][(/\ RequestStep
        /\ last.op = "create_access_token"
        /\ last.req.expires_minutes # None
        /\ last.req.expires_minutes[1] <= 0
        /\ last'.op = "read_current_user"
        /\ last'.req.bearer = last.body)
       => last'.status = 401]_vars

\* The negative half of C5: a token made with a negative expiry is refused.
C5_NegativeExpiryRejected ==
    [][(/\ RequestStep
        /\ last.op = "create_access_token"
        /\ last.req.expires_minutes # None
        /\ last.req.expires_minutes[1] < 0
        /\ last'.op = "read_current_user"
        /\ last'.req.bearer = last.body)
       => last'.status = 401]_vars

\* C6: a registration (by any of the three operations, with any role) whose
\* email no user holds succeeds with 201 and adds one user; one whose email a
\* user already holds is answered 400, adds no user and leaves every user row
\* as it was.
C6_DuplicateEmailConflict ==
    [][(/\ RequestStep
        /\ last'.op \in RegisterOps
        /\ PasswordValid(last'.req.password))
       => IF \E i \in 1..Len(users) : users[i].email = last'.req.email
          THEN last'.status = 400 /\ users' = users
          ELSE /\ last'.status = 201
               /\ Len(users') = Len(users) + 1
               /\ SubSeq(users', 1, Len(users)) = users
               /\ users'[Len(users')].email = last'.req.email]_vars

\* A second registration under another role and by another operation than the
\* first was refused.
C6_Witness ==
    /\ last.op = "register_student"
    /\ last.status = 400
    /\ Len(users) = 1
    /\ users[1].email = last.req.email
    /\ users[1].role = TEACHER

\* Ids a request may name: every row of the table and one id past its end
IdsOf(table) == 1..(Len(table) + 1)

(***************************************************************************)
(* api/classrooms.py                                                       *)
(***************************************************************************)
ClassroomRead(classroom) ==
    [id |-> classroom.id, name |-> classroom.name,
     description |-> classroom.description, teacher_id |-> classroom.teacher_id]

\* An ownership test that only asks whether the classroom exists
ClassroomExists(classroom, teacher_id) == classroom # None

\* `classroom is None or classroom.teacher_id != current_teacher.id`, negated
ClassroomOwned(classroom, teacher_id) ==
    classroom # None /\ classroom[1].teacher_id = teacher_id

\* ClassroomCreate as the model's requests send it
NewClassroom(teacher_id) ==
    [id |-> 0, name |-> "room", description |-> None, teacher_id |-> teacher_id]

create_classroom ==
    /\ Len(classrooms) < MaxClassrooms
    /\ \E bearer \in bearers :
          LET req == [bearer |-> bearer]
              current == get_current_user(bearer, users, now)
              auth == require_teacher(current)
          IN IF auth # 200
             THEN /\ last' = Response("create_classroom", req, auth, None)
                  /\ UNCHANGED classrooms
             ELSE /\ classrooms' = Insert(classrooms,
                                          NewClassroom(current[1].id))
                  /\ last' = Response("create_classroom", req, 201,
                                Some(ClassroomRead(classrooms'[Len(classrooms')])))
    /\ UNCHANGED <<outside, users, enrollments, lessons, assignments, submissions,
                   files, now>>

list_classrooms ==
    /\ \E bearer \in bearers :
          LET req == [bearer |-> bearer]
              current == get_current_user(bearer, users, now)
              auth == require_teacher(current)
          IN IF auth # 200
             THEN last' = Response("list_classrooms", req, auth, None)
             ELSE last' = Response("list_classrooms", req, 200,
                             Some(SelectSeq(classrooms,
                                  LAMBDA c : c.teacher_id = current[1].id)))
    /\ UNCHANGED <<outside, users, classrooms, enrollments, lessons, assignments,
                   submissions, files, now>>

get_classroom ==
    /\ \E bearer \in bearers, classroom_id \in IdsOf(classrooms) :
          LET req == [bearer |-> bearer, classroom_id |-> classroom_id]
              current == get_current_user(bearer, users, now)
              auth == require_teacher(current)
              classroom == Get(classrooms, classroom_id)
          IN IF auth # 200
             THEN last' = Response("get_classroom", req, auth, None)
             ELSE IF ~ClassroomOwned(classroom, current[1].id)
             THEN last' = Response("get_classroom", req, 404, None)
             ELSE last' = Response("get_classroom", req, 200,
                                   Some(ClassroomRead(classroom[1])))
    /\ UNCHANGED <<outside, users, classrooms, enrollments, lessons, assignments,
                   submissions, files, now>>

\* ClassroomEnrollment has the composite primary key (classroom_id,
\* student_id): the table is a set of rows
EnrollmentRow(classroom_id, student_id) ==
    [classroom_id |-> classroom_id, student_id |-> student_id]

\* The student ids an enroll request names: a teacher, a student, no user
EnrollChoices == {1, 3, Len(SeedUsers) + 1}

\* An existence check that never finds the row
NeverEnrolled(classroom_id, student_id) == FALSE

\* session.get(ClassroomEnrollment, {...}) found a row
AlreadyEnrolled(classroom_id, student_id) ==
    EnrollmentRow(classroom_id, student_id) \in enrollments

\* enroll_student with the student check moved before the ownership check
enroll_student_student_first ==
    /\ \E bearer \in bearers, classroom_id \in IdsOf(classrooms),
          student_id \in EnrollChoices :
          LET req == [bearer |-> bearer, classroom_id |-> classroom_id,
                      student_id |-> student_id]
              current == get_current_user(bearer, users, now)
              auth == require_teacher(current)
              classroom == Get(classrooms, classroom_id)
              student == Get(users, student_id)
          IN IF auth # 200
             THEN /\ last' = Response("enroll_student", req, auth, None)
                  /\ UNCHANGED enrollments
             ELSE IF student = None \/ student[1].role # STUDENT
             THEN /\ last' = Response("enroll_student", req, 400, None)
                  /\ UNCHANGED enrollments
             ELSE IF ~ClassroomOwned(classroom, current[1].id)
             THEN /\ last' = Response("enroll_student", req, 404, None)
                  /\ UNCHANGED enrollments
             ELSE IF AlreadyEnrolled(classroom_id, student_id)
             THEN /\ last' = Response("enroll_student", req, 204, None)
                  /\ UNCHANGED enrollments
             ELSE /\ enrollments' = enrollments \cup
                                      {EnrollmentRow(classroom_id, student_id)}
                  /\ last' = Response("enroll_student", req, 204, None)
    /\ UNCHANGED <<outside, users, classrooms, lessons, assignments, submissions,
                   files, now>>

enroll_student ==
    /\ \E bearer \in bearers, classroom_id \in IdsOf(classrooms),
          student_id \in EnrollChoices :
          LET req == [bearer |-> bearer, classroom_id |-> classroom_id,
                      student_id |-> student_id]
              current == get_current_user(bearer, users, now)
              auth == require_teacher(current)
              classroom == Get(classrooms, classroom_id)
              student == Get(users, student_id)
          IN IF auth # 200
             THEN /\ last' = Response("enroll_student", req, auth, None)
                  /\ UNCHANGED enrollments
             ELSE IF ~ClassroomOwned(classroom, current[1].id)
             THEN /\ last' = Response("enroll_student", req, 404, None)
                  /\ UNCHANGED enrollments
             ELSE IF student = None \/ student[1].role # STUDENT
             THEN /\ last' = Response("enroll_student", req, 400, None)
                  /\ UNCHANGED enrollments
             ELSE IF AlreadyEnrolled(classroom_id, student_id)
             THEN /\ last' = Response("enroll_student", req, 204, None)
                  /\ UNCHANGED enrollments
             ELSE IF EnrollmentRow(classroom_id, student_id) \in enrollments
             THEN \* the commit violates the primary key: IntegrityError
                  /\ last' = Response("enroll_student", req, 500, None)
                  /\ UNCHANGED enrollments
             ELSE /\ enrollments' = enrollments \cup
                                      {EnrollmentRow(classroom_id, student_id)}
                  /\ last' = Response("enroll_student", req, 204, None)
    /\ UNCHANGED <<outside, users, classrooms, lessons, assignments, submissions,
                   files, now>>

(***************************************************************************)
(* Classrooms and enrollment, from the registered users.                   *)
(***************************************************************************)
InitClassrooms ==
    /\ users = SeedUsers
    /\ classrooms = <<>>
    /\ enrollments = {}
    /\ lessons = <<>>
    /\ assignments = <<>>
    /\ submissions = <<>>
    /\ files = {}
    /\ now = 0
    /\ last = NoResponse
    /\ bearers = Bearers
    /\ inflight = <<>>
    /\ startup = Started

NextClassrooms ==
    \/ create_classroom
    \/ list_classrooms
    \/ get_classroom
    \/ enroll_student

SpecClassrooms == InitClassrooms /\ [][NextClassrooms]_vars

(***************************************************************************)
(* Claims about classrooms and enrollment (SpecClassrooms).                *)
(***************************************************************************)
\* The user a response's request was made by (None when unauthenticated)
CallerOf(resp) == get_current_user(resp.req.bearer, users, now)

ByTeacher(resp) == CallerOf(resp) # None /\ CallerOf(resp)[1].role = TEACHER

\* The classroom a get or enroll request names exists and belongs to the caller
OnOwnClassroom(resp) ==
    LET classroom == Get(classrooms, resp.req.classroom_id)
    IN classroom # None /\ classroom[1].teacher_id = CallerOf(resp)[1].id

\* The classroom a get or enroll request names exists and belongs to another user
OnForeignClassroom(resp) ==
    LET classroom == Get(classrooms, resp.req.classroom_id)
    IN classroom # None /\ classroom[1].teacher_id # CallerOf(resp)[1].id

\* C3 as stated: a teacher calling get classroom or enroll student on a
\* classroom of another teacher, or list classrooms while another teacher has a
\* classroom, receives 404 and changes no state.
C3_ForeignTeacherAlwaysNotFound ==
    [][(/\ RequestStep
        /\ last'.op \in {"get_classroom", "list_classrooms", "enroll_student"}
        /\ ByTeacher(last')
        /\ IF last'.op = "list_classrooms"
           THEN \E i \in 1..Len(classrooms) :
                    classrooms[i].teacher_id # CallerOf(last')[1].id
           ELSE OnForeignClassroom(last'))
       => (last'.status = 404 /\ UNCHANGED <<db, files>>)]_vars

\* C3 (amended): a teacher calling get classroom or enroll student on a
\* classroom of another teacher receives 404 and changes no state; list
\* classrooms answers 200 with exactly the caller's own classrooms (none of
\* another teacher's) and changes no state; the owner receives 200 with the
\* classroom from get classroom and 204 from enroll student for a STUDENT id.
C3_ClassroomIsolation ==
    [][(/\ RequestStep
        /\ last'.op \in {"get_classroom", "list_classrooms", "enroll_student"}
        /\ ByTeacher(last'))
       => CASE last'.op = "list_classrooms" ->
                 /\ last'.status = 200
                 /\ \A i \in 1..Len(last'.body[1]) :
                       last'.body[1][i].teacher_id = CallerOf(last')[1].id
                 /\ \A i \in 1..Len(classrooms) :
                       classrooms[i].teacher_id = CallerOf(last')[1].id
                       => \E j \in 1..Len(last'.body[1]) :
                              last'.body[1][j] = ClassroomRead(classrooms[i])
                 /\ UNCHANGED <<db, files>>
            [] last'.op = "get_classroom" ->
                 /\ OnForeignClassroom(last')
                    => (last'.status = 404 /\ UNCHANGED <<db, files>>)
                 /\ OnOwnClassroom(last')
                    => /\ last'.status = 200
                       /\ last'.body[1].id = last'.req.classroom_id
                       /\ last'.body[1].teacher_id = CallerOf(last')[1].id
            [] last'.op = "enroll_student" ->
                 /\ OnForeignClassroom(last')
                    => (last'.status = 404 /\ UNCHANGED <<db, files>>)
                 /\ (/\ OnOwnClassroom(last')
                     /\ Get(users, last'.req.student_id) # None
                     /\ Get(users, last'.req.student_id)[1].role = STUDENT)
                    => last'.status = 204]_vars

\* Teacher 2 listed classrooms while teacher 1 owned one: 200, without it.
C3_Witness ==
    /\ last.op = "list_classrooms"
    /\ last.status = 200
    /\ CallerOf(last) # None
    /\ CallerOf(last)[1].id = 2
    /\ \E i \in 1..Len(classrooms) : classrooms[i].teacher_id = 1
    /\ \E i \in 1..Len(classrooms) : classrooms[i].teacher_id = 2
    /\ \A j \in 1..Len(last.body[1]) : last.body[1][j].teacher_id = 2

\* C7: enroll student by the owning teacher for a STUDENT id answers 204 and
\* leaves exactly one enrollment row for the pair; when the pair is already
\* enrolled the call changes no state.
C7_EnrollIdempotent ==
    [][(/\ RequestStep
        /\ last'.op = "enroll_student"
        /\ ByTeacher(last')
        /\ OnOwnClassroom(last')
        /\ Get(users, last'.req.student_id) # None
        /\ Get(users, last'.req.student_id)[1].role = STUDENT)
       => LET row == EnrollmentRow(last'.req.classroom_id, last'.req.student_id)
          IN /\ last'.status = 204
             /\ last'.body = None
             /\ enrollments' = enrollments \cup {row}
             /\ Cardinality({e \in enrollments' :
                               /\ e.classroom_id = row.classroom_id
                               /\ e.student_id = row.student_id}) = 1
             /\ row \in enrollments => UNCHANGED <<db, files>>]_vars

\* An enroll request of the owner was answered 204 with the pair enrolled and
\* a second classroom present.
C7_Witness ==
    /\ last.op = "enroll_student"
    /\ last.status = 204
    /\ Len(classrooms) = 2
    /\ EnrollmentRow(last.req.classroom_id, last.req.student_id) \in enrollments
    /\ Cardinality(enrollments) = 1

(***************************************************************************)
(* api/lessons.py                                                          *)
(***************************************************************************)
LessonRead(lesson) ==
    [id |-> lesson.id, classroom_id |-> lesson.classroom_id,
     title |-> lesson.title, description |-> lesson.description,
     scheduled_at |-> lesson.scheduled_at]

NewLesson(classroom_id) ==
    [id |-> 0, classroom_id |-> classroom_id, title |-> "lesson",
     description |-> None, scheduled_at |-> None]

create_lesson ==
    /\ Len(lessons) < MaxLessons
    /\ \E bearer \in bearers, classroom_id \in IdsOf(classrooms) :
          LET req == [bearer |-> bearer, classroom_id |-> classroom_id]
              current == get_current_user(bearer, users, now)
              auth == require_teacher(current)
              classroom == Get(classrooms, classroom_id)
          IN IF auth # 200
             THEN /\ last' = Response("create_lesson", req, auth, None)
                  /\ UNCHANGED lessons
             ELSE IF ~ClassroomOwned(classroom, current[1].id)
             THEN /\ last' = Response("create_lesson", req, 404, None)
                  /\ UNCHANGED lessons
             ELSE /\ lessons' = Insert(lessons, NewLesson(classroom_id))
                  /\ last' = Response("create_lesson", req, 201,
                                      Some(LessonRead(lessons'[Len(lessons')])))
    /\ UNCHANGED <<outside, users, classrooms, enrollments, assignments, submissions,
                   files, now>>

list_lessons_for_classroom ==
    /\ \E bearer \in bearers, classroom_id \in IdsOf(classrooms) :
          LET req == [bearer |-> bearer, classroom_id |-> classroom_id]
              current == get_current_user(bearer, users, now)
              auth == require_teacher(current)
              classroom == Get(classrooms, classroom_id)
          IN IF auth # 200
             THEN last' = Response("list_lessons_for_classroom", req, auth, None)
             ELSE IF ~ClassroomOwned(classroom, current[1].id)
             THEN last' = Response("list_lessons_for_classroom", req, 404, None)
             ELSE last' = Response("list_lessons_for_classroom", req, 200,
                             Some(SelectSeq(lessons,
                                  LAMBDA l : l.classroom_id = classroom_id)))
    /\ UNCHANGED <<outside, users, classrooms, enrollments, lessons, assignments,
                   submissions, files, now>>

(***************************************************************************)
(* api/assignments.py                                                      *)
(***************************************************************************)
AssignmentRead(assignment) ==
    [id |-> assignment.id, lesson_id |-> assignment.lesson_id,
     title |-> assignment.title, description |-> assignment.description,
     due_at |-> assignment.due_at, max_score |-> assignment.max_score,
     is_published |-> assignment.is_published]

\* AssignmentCreate with its defaults max_score = 100.0, is_published = True
NewAssignment(lesson_id) ==
    [id |-> 0, lesson_id |-> lesson_id, title |-> "assignment",
     description |-> None, due_at |-> None, max_score |-> 100,
     is_published |-> TRUE]

\* A lesson check that hides a lesson of another teacher as 404, the way the
\* classroom handlers do
ensure_lesson_visible_to_teacher(lesson_id, teacher_id) ==
    LET lesson == Get(lessons, lesson_id) IN
    IF lesson = None THEN 404
    ELSE IF ~ClassroomOwned(Get(classrooms, lesson[1].classroom_id), teacher_id)
    THEN 404
    ELSE 200

\* The status _ensure_lesson_owned_by_teacher raises, 200 when it returns
ensure_lesson_owned_by_teacher(lesson_id, teacher_id) ==
    LET lesson == Get(lessons, lesson_id) IN
    IF lesson = None THEN 404
    ELSE LET classroom == Get(classrooms, lesson[1].classroom_id) IN
         IF classroom = None \/ classroom[1].teacher_id # teacher_id THEN 403
         ELSE 200

create_assignment ==
    /\ Len(assignments) < MaxAssignments
    /\ \E bearer \in bearers, lesson_id \in IdsOf(lessons) :
          LET req == [bearer |-> bearer, lesson_id |-> lesson_id]
              current == get_current_user(bearer, users, now)
              auth == require_teacher(current)
          IN IF auth # 200
             THEN /\ last' = Response("create_assignment", req, auth, None)
                  /\ UNCHANGED assignments
             ELSE LET owned == ensure_lesson_owned_by_teacher(lesson_id,
                                                              current[1].id) IN
                  IF owned # 200
                  THEN /\ last' = Response("create_assignment", req, owned, None)
                       /\ UNCHANGED assignments
                  ELSE /\ assignments' = Insert(assignments,
                                                NewAssignment(lesson_id))
                       /\ last' = Response("create_assignment", req, 201,
                              Some(AssignmentRead(assignments'[Len(assignments')])))
    /\ UNCHANGED <<outside, users, classrooms, enrollments, lessons, submissions,
                   files, now>>

list_assignments_for_lesson ==
    /\ \E bearer \in bearers, lesson_id \in IdsOf(lessons) :
          LET req == [bearer |-> bearer, lesson_id |-> lesson_id]
              current == get_current_user(bearer, users, now)
              auth == require_teacher(current)
          IN IF auth # 200
             THEN last' = Response("list_assignments_for_lesson", req, auth, None)
             ELSE LET owned == ensure_lesson_owned_by_teacher(lesson_id,
                                                              current[1].id) IN
                  IF owned # 200
                  THEN last' = Response("list_assignments_for_lesson", req,
                                        owned, None)
                  ELSE last' = Response("list_assignments_for_lesson", req, 200,
                                  Some(SelectSeq(assignments,
                                       LAMBDA a : a.lesson_id = lesson_id)))
    /\ UNCHANGED <<outside, users, classrooms, enrollments, lessons, assignments,
                   submissions, files, now>>

get_assignment ==
    /\ \E bearer \in bearers, assignment_id \in IdsOf(assignments) :
          LET req == [bearer |-> bearer, assignment_id |-> assignment_id]
              current == get_current_user(bearer, users, now)
              auth == require_teacher(current)
              assignment == Get(assignments, assignment_id)
          IN IF auth # 200
             THEN last' = Response("get_assignment", req, auth, None)
             ELSE IF assignment = None
             THEN last' = Response("get_assignment", req, 404, None)
             ELSE LET owned == ensure_lesson_owned_by_teacher(
                                   assignment[1].lesson_id, current[1].id) IN
                  IF owned # 200
                  THEN last' = Response("get_assignment", req, owned, None)
                  ELSE last' = Response("get_assignment", req, 200,
                                        Some(AssignmentRead(assignment[1])))
    /\ UNCHANGED <<outside, users, classrooms, enrollments, lessons, assignments,
                   submissions, files, now>>

(***************************************************************************)
(* Lessons and assignments, from the registered users after each teacher   *)
(* created one classroom (classroom 1 of teacher 1, classroom 2 of         *)
(* teacher 2).                                                             *)
(***************************************************************************)
SeedClassrooms == Insert(Insert(<<>>, NewClassroom(1)), NewClassroom(2))

InitAssignments ==
    /\ users = SeedUsers
    /\ classrooms = SeedClassrooms
    /\ enrollments = {}
    /\ lessons = <<>>
    /\ assignments = <<>>
    /\ submissions = <<>>
    /\ files = {}
    /\ now = 0
    /\ last = NoResponse
    /\ bearers = Bearers
    /\ inflight = <<>>
    /\ startup = Started

NextAssignments ==
    \/ create_lesson
    \/ list_lessons_for_classroom
    \/ create_assignment
    \/ list_assignments_for_lesson
    \/ get_assignment

SpecAssignments == InitAssignments /\ [][NextAssignments]_vars

(***************************************************************************)
(* Claims about assignments (SpecAssignments).                             *)
(***************************************************************************)
\* The teacher who owns the classroom of a lesson (None for a broken chain)
TeacherOfLesson(lesson_id) ==
    LET lesson == Get(lessons, lesson_id) IN
    IF lesson = None THEN None
    ELSE LET classroom == Get(classrooms, lesson[1].classroom_id) IN
         IF classroom = None THEN None ELSE Some(classroom[1].teacher_id)

\* C10: for a TEACHER caller, get assignment answers 404 when the assignment
\* id does not exist and 403 when the assignment's lesson belongs to a
\* classroom of another teacher; create assignment and list assignments for
\* lesson answer 404 for a missing lesson and 403 for a lesson whose classroom
\* the caller does not own, and no Assignment row is created in either case.
C10_AssignmentAuthorization ==
    [][(/\ RequestStep
        /\ last'.op \in {"get_assignment", "create_assignment",
                         "list_assignments_for_lesson"}
        /\ ByTeacher(last'))
       => IF last'.op = "get_assignment"
          THEN LET assignment == Get(assignments, last'.req.assignment_id) IN
               /\ assignment = None => last'.status = 404
               /\ (/\ assignment # None
                   /\ TeacherOfLesson(assignment[1].lesson_id) #
                          Some(CallerOf(last')[1].id))
                  => last'.status = 403
          ELSE /\ Get(lessons, last'.req.lesson_id) = None
                  => (last'.status = 404 /\ assignments' = assignments)
               /\ (/\ Get(lessons, last'.req.lesson_id) # None
                   /\ TeacherOfLesson(last'.req.lesson_id) #
                          Some(CallerOf(last')[1].id))
                  => (last'.status = 403 /\ assignments' = assignments)]_vars

\* A teacher asked for an existing assignment under a lesson of the other
\* teacher's classroom and was answered 403.
C10_Witness ==
    /\ last.op = "get_assignment"
    /\ last.status = 403
    /\ ByTeacher(last)
    /\ Get(assignments, last.req.assignment_id) # None
    /\ TeacherOfLesson(Get(assignments, last.req.assignment_id)[1].lesson_id)
         # Some(CallerOf(last)[1].id)

(***************************************************************************)
(* api/submissions.py                                                      *)
(***************************************************************************)
SubmissionRead(submission) ==
    [id |-> submission.id, assignment_id |-> submission.assignment_id,
     student_id |-> submission.student_id,
     submitted_at |-> submission.submitted_at, content |-> submission.content,
     file_path |-> submission.file_path, score |-> submission.score,
     feedback |-> submission.feedback, graded_at |-> submission.graded_at,
     graded_by |-> submission.graded_by]

\* The status _ensure_student_enrolled_for_assignment raises, 200 when it returns
ensure_student_enrolled_for_assignment(assignment, student_id) ==
    LET lesson == Get(lessons, assignment.lesson_id) IN
    IF lesson = None THEN 404
    ELSE LET classroom == Get(classrooms, lesson[1].classroom_id) IN
         IF classroom = None THEN 404
         ELSE IF EnrollmentRow(classroom[1].id, student_id) \notin enrollments
         THEN 403
         ELSE 200

\* The uploads a request carries: none, a named file of exactly
\* MAX_UPLOAD_SIZE bytes, a named file one byte larger, a small file without a
\* filename
Uploads ==
    {None, Some([filename |-> None, size |-> 1])}
        \cup {Some([filename |-> Some("hw.txt"), size |-> size]) :
                 size \in {MAX_UPLOAD_SIZE, MAX_UPLOAD_SIZE + 1}}

\* The path _save_uploaded_file writes: UPLOAD_DIR/<timestamp>_<name>
UploadPath(file, clock) ==
    [timestamp |-> clock,
     name |-> IF file.filename = None THEN "submission" ELSE file.filename[1]]

\* The upload directory after _save_uploaded_file (open(path, "wb") replaces
\* a file of the same path)
save_uploaded_file(file, clock) ==
    {f \in files : f.path # UploadPath(file, clock)}
        \cup {[path |-> UploadPath(file, clock), size |-> file.size]}

\* A size test that also refuses a file of exactly MAX_UPLOAD_SIZE bytes
TooLargeInclusive(size) == size >= MAX_UPLOAD_SIZE

\* `size > settings.MAX_UPLOAD_SIZE`
TooLarge(size) == size > MAX_UPLOAD_SIZE

NewSubmission(assignment_id, student_id, content, file_path, clock) ==
    [id |-> 0, assignment_id |-> assignment_id, student_id |-> student_id,
     submitted_at |-> clock, content |-> content, file_path |-> file_path,
     score |-> None, feedback |-> None, graded_at |-> None, graded_by |-> None]

\* `current_user.role != UserRole.STUDENT`, negated
IsStudent(current_user) == current_user.role = STUDENT

\* An enrollment gate that is always open
EnrollmentNotRequired(assignment, student_id) == 200

\* The enrollment gate of create_submission
EnrollmentGate(assignment, student_id) ==
    ensure_student_enrolled_for_assignment(assignment, student_id)

create_submission ==
    /\ Len(submissions) < MaxSubmissions
    /\ \E bearer \in bearers, assignment_id \in IdsOf(assignments),
          file \in Uploads :
          LET req == [bearer |-> bearer, assignment_id |-> assignment_id,
                      content |-> Some("answer"), file |-> file]
              current == get_current_user(bearer, users, now)
              assignment == Get(assignments, assignment_id)
              refused(status) ==
                  /\ last' = Response("create_submission", req, status, None)
                  /\ UNCHANGED <<submissions, files>>
          IN IF current = None THEN refused(401)
             ELSE IF ~IsStudent(current[1]) THEN refused(403)
             ELSE IF assignment = None THEN refused(404)
             ELSE LET enrolled == EnrollmentGate(assignment[1], current[1].id) IN
                  IF enrolled # 200 THEN refused(enrolled)
                  ELSE IF file # None /\ TooLarge(file[1].size) THEN refused(400)
                  ELSE /\ files' = IF file = None THEN files
                                   ELSE save_uploaded_file(file[1], now)
                       /\ submissions' = Insert(submissions,
                              NewSubmission(assignment_id, current[1].id,
                                  req.content,
                                  IF file = None THEN None
                                  ELSE Some(UploadPath(file[1], now)),
                                  now))
                       /\ last' = Response("create_submission", req, 201,
                              Some(SubmissionRead(submissions'[Len(submissions')])))
    /\ UNCHANGED <<outside, users, classrooms, enrollments, lessons, assignments, now>>

\* A student filter that selects by assignment only
SubmissionsOfAssignment(assignment_id, student_id) ==
    SelectSeq(submissions, LAMBDA x : x.assignment_id = assignment_id)

\* The student branch of list_submissions_for_assignment
OwnSubmissions(assignment_id, student_id) ==
    SelectSeq(submissions, LAMBDA x : /\ x.assignment_id = assignment_id
                                       /\ x.student_id = student_id)

list_submissions_for_assignment ==
    /\ \E bearer \in bearers, assignment_id \in IdsOf(assignments) :
          LET req == [bearer |-> bearer, assignment_id |-> assignment_id]
              current == get_current_user(bearer, users, now)
              assignment == Get(assignments, assignment_id)
              answer(status, body) ==
                  last' = Response("list_submissions_for_assignment", req,
                                   status, body)
          IN IF current = None THEN answer(401, None)
             ELSE IF assignment = None THEN answer(404, None)
             ELSE IF current[1].role = TEACHER
             THEN LET lesson == Get(lessons, assignment[1].lesson_id) IN
                  IF lesson = None THEN answer(404, None)
                  ELSE IF ~ClassroomOwned(Get(classrooms, lesson[1].classroom_id),
                                          current[1].id)
                  THEN answer(403, None)
                  ELSE answer(200, Some(SelectSeq(submissions,
                                LAMBDA x : x.assignment_id = assignment_id)))
             ELSE answer(200, Some(OwnSubmissions(assignment_id, current[1].id)))
    /\ UNCHANGED <<outside, users, classrooms, enrollments, lessons, assignments,
                   submissions, files, now>>

get_submission ==
    /\ \E bearer \in bearers, submission_id \in IdsOf(submissions) :
          LET req == [bearer |-> bearer, submission_id |-> submission_id]
              current == get_current_user(bearer, users, now)
              submission == Get(submissions, submission_id)
              answer(status, body) ==
                  last' = Response("get_submission", req, status, body)
          IN IF current = None THEN answer(401, None)
             ELSE IF submission = None THEN answer(404, None)
             ELSE LET assignment == Get(assignments, submission[1].assignment_id) IN
                  IF assignment = None THEN answer(404, None)
                  ELSE IF /\ current[1].role = STUDENT
                          /\ submission[1].student_id # current[1].id
                  THEN answer(403, None)
                  ELSE IF /\ current[1].role = TEACHER
                          /\ LET lesson == Get(lessons, assignment[1].lesson_id)
                                 classroom == IF lesson = None THEN None
                                              ELSE Get(classrooms,
                                                       lesson[1].classroom_id)
                             IN ~ClassroomOwned(classroom, current[1].id)
                  THEN answer(403, None)
                  ELSE answer(200, Some(SubmissionRead(submission[1])))
    /\ UNCHANGED <<outside, users, classrooms, enrollments, lessons, assignments,
                   submissions, files, now>>

(***************************************************************************)
(* Submissions, from the registered users after each teacher created one   *)
(* classroom, one lesson in it (lesson i in classroom i) and one           *)
(* assignment under it (assignment i in lesson i), and after teacher 1     *)
(* enrolled nobody, both students, or student 3 while teacher 2 enrolled   *)
(* student 4.  The requests of this scenario are served within one tick of *)
(* the clock.                                                              *)
(***************************************************************************)
SeedLessons == Insert(Insert(<<>>, NewLesson(1)), NewLesson(2))

SeedAssignments == Insert(Insert(<<>>, NewAssignment(1)), NewAssignment(2))

EnrollmentSeeds ==
    { {},
      {EnrollmentRow(1, 3), EnrollmentRow(1, 4)},
      {EnrollmentRow(1, 3), EnrollmentRow(2, 4)} }

InitSubmissions ==
    /\ users = SeedUsers
    /\ classrooms = SeedClassrooms
    /\ enrollments \in EnrollmentSeeds
    /\ lessons = SeedLessons
    /\ assignments = SeedAssignments
    /\ submissions = <<>>
    /\ files = {}
    /\ now = 0
    /\ last = NoResponse
    /\ bearers = Bearers
    /\ inflight = <<>>
    /\ startup = Started

NextSubmissions ==
    \/ create_submission
    \/ list_submissions_for_assignment
    \/ get_submission

SpecSubmissions == InitSubmissions /\ [][NextSubmissions]_vars

(***************************************************************************)
(* Claims about submissions (SpecSubmissions).                             *)
(***************************************************************************)
\* The rows of a response body are exactly the submissions satisfying Keep,
\* each once and in full
ListsExactly(body, Keep(_)) ==
    /\ \A j \in 1..Len(body) :
          /\ Get(submissions, body[j].id) = Some(body[j])
          /\ Keep(body[j])
          /\ \A k \in 1..Len(body) : body[k].id = body[j].id => k = j
    /\ \A i \in 1..Len(submissions) :
          Keep(submissions[i]) => \E j \in 1..Len(body) : body[j].id = i

\* C2: a STUDENT caller receives from list submissions for assignment exactly
\* their own submissions of that assignment, and from get submission 403 for a
\* submission of another student; a TEACHER caller who owns the classroom of
\* the assignment's lesson receives all submissions of the assignment (and the
\* submission asked for), and one who does not own it is refused by both.
C2_SubmissionVisibility ==
    /\ (/\ last.op = "list_submissions_for_assignment"
        /\ CallerOf(last) # None
        /\ Get(assignments, last.req.assignment_id) # None)
       => LET who == CallerOf(last)[1]
              assignment == Get(assignments, last.req.assignment_id)[1]
          IN IF who.role = STUDENT
             THEN /\ last.status = 200
                  /\ ListsExactly(last.body[1],
                        LAMBDA x : /\ x.assignment_id = assignment.id
                                   /\ x.student_id = who.id)
             ELSE IF TeacherOfLesson(assignment.lesson_id) = Some(who.id)
             THEN /\ last.status = 200
                  /\ ListsExactly(last.body[1],
                        LAMBDA x : x.assignment_id = assignment.id)
             ELSE last.status \in {403, 404} /\ last.body = None
    /\ (/\ last.op = "get_submission"
        /\ CallerOf(last) # None
        /\ Get(submissions, last.req.submission_id) # None)
       => LET who == CallerOf(last)[1]
              submission == Get(submissions, last.req.submission_id)[1]
              assignment == Get(assignments, submission.assignment_id)[1]
          IN IF who.role = STUDENT
             THEN IF submission.student_id # who.id
                  THEN last.status = 403 /\ last.body = None
                  ELSE last.status = 200 /\ last.body = Some(submission)
             ELSE IF TeacherOfLesson(assignment.lesson_id) = Some(who.id)
             THEN last.status = 200 /\ last.body = Some(submission)
             ELSE last.status \in {403, 404} /\ last.body = None

\* Student 3 listed an assignment holding a submission of student 3 and one of
\* student 4 and received the one row of student 3.
C2_Witness ==
    /\ last.op = "list_submissions_for_assignment"
    /\ last.status = 200
    /\ CallerOf(last) # None
    /\ CallerOf(last)[1].id = 3
    /\ \E i \in 1..Len(submissions) :
          /\ submissions[i].assignment_id = last.req.assignment_id
          /\ submissions[i].student_id = 4
    /\ Len(last.body[1]) = 1
    /\ last.body[1][1].student_id = 3

\* The student a create submission request is made by is enrolled in the
\* classroom of the lesson of the assignment it names
EnrolledFor(resp) ==
    LET assignment == Get(assignments, resp.req.assignment_id)[1]
        lesson == Get(lessons, assignment.lesson_id)[1]
    IN EnrollmentRow(lesson.classroom_id, CallerOf(resp)[1].id) \in enrollments

\* C4: create submission by a STUDENT with no enrollment row for the classroom
\* of the assignment's lesson is answered 403 for every existing assignment id
\* and creates no Submission row and no stored file; a caller whose role is not
\* STUDENT is answered 403 whether or not the assignment exists.
C4_EnrollmentGate ==
    [][(/\ RequestStep
        /\ last'.op = "create_submission"
        /\ CallerOf(last') # None)
       => /\ CallerOf(last')[1].role # STUDENT
             => (last'.status = 403 /\ UNCHANGED <<db, files>>)
          /\ (/\ CallerOf(last')[1].role = STUDENT
              /\ Get(assignments, last'.req.assignment_id) # None
              /\ ~EnrolledFor(last'))
             => (last'.status = 403 /\ UNCHANGED <<db, files>>)]_vars

\* A student who is not enrolled sent a file for an existing assignment and
\* was answered 403, the tables and the upload directory still empty.
C4_Witness ==
    /\ last.op = "create_submission"
    /\ last.status = 403
    /\ CallerOf(last) # None
    /\ CallerOf(last)[1].role = STUDENT
    /\ Get(assignments, last.req.assignment_id) # None
    /\ ~EnrolledFor(last)
    /\ last.req.file # None
    /\ submissions = <<>>
    /\ files = {}

\* C9: in create submission by an enrolled student, a file of at most
\* MAX_UPLOAD_SIZE bytes is stored and a Submission row recording its path is
\* created (201); a larger file is answered 400 and neither a row nor a file
\* is created.
C9_UploadSizeCeiling ==
    [][(/\ RequestStep
        /\ last'.op = "create_submission"
        /\ CallerOf(last') # None
        /\ CallerOf(last')[1].role = STUDENT
        /\ Get(assignments, last'.req.assignment_id) # None
        /\ EnrolledFor(last')
        /\ last'.req.file # None)
       => IF last'.req.file[1].size <= MAX_UPLOAD_SIZE
          THEN /\ last'.status = 201
               /\ Len(submissions') = Len(submissions) + 1
               /\ SubSeq(submissions', 1, Len(submissions)) = submissions
               /\ LET row == submissions'[Len(submissions')] IN
                  /\ row.file_path # None
                  /\ [path |-> row.file_path[1], size |-> last'.req.file[1].size]
                        \in files'
                  /\ last'.body = Some(row)
          ELSE last'.status = 400 /\ UNCHANGED <<db, files>>]_vars

\* A file of exactly MAX_UPLOAD_SIZE bytes was accepted and is stored under
\* the path the new row records.
C9_Witness ==
    /\ last.op = "create_submission"
    /\ last.status = 201
    /\ last.req.file # None
    /\ last.req.file[1].size = MAX_UPLOAD_SIZE
    /\ [path |-> last.body[1].file_path[1], size |-> MAX_UPLOAD_SIZE] \in files
    /\ Get(submissions, last.body[1].id) = last.body

\* A file of MAX_UPLOAD_SIZE + 1 bytes from an enrolled student was refused.
C9_RejectedWitness ==
    /\ last.op = "create_submission"
    /\ last.status = 400
    /\ last.req.file[1].size = MAX_UPLOAD_SIZE + 1
    /\ submissions = <<>>
    /\ files = {}

(***************************************************************************)
(* api/grading.py                                                          *)
(***************************************************************************)
\* GradeUpdate: both fields optional; a score of 0.0 is a value, not an absence
GradeUpdates ==
    {[score |-> score, feedback |-> feedback] :
        score \in {None, Some(0), Some(90)},
        feedback \in {None, Some("good")}}

\* A presence test by truthiness, which takes 0.0 for an absent score
ScoreTruthy(payload) == payload.score # None /\ payload.score[1] # 0

\* `payload.score is not None`
ScoreGiven(payload) == payload.score # None

\* `payload.feedback is not None`
FeedbackGiven(payload) == payload.feedback # None

\* A grading that records the time but not the grader
GradedAnonymously(submission, payload, teacher_id, clock) ==
    [submission EXCEPT
        !.score = IF ScoreGiven(payload) THEN payload.score ELSE @,
        !.feedback = IF FeedbackGiven(payload) THEN payload.feedback ELSE @,
        !.graded_at = Some(clock)]

\* A grading that also takes the row over for the grader
GradedAsOwn(submission, payload, teacher_id, clock) ==
    [submission EXCEPT
        !.score = IF ScoreGiven(payload) THEN payload.score ELSE @,
        !.feedback = IF FeedbackGiven(payload) THEN payload.feedback ELSE @,
        !.graded_at = Some(clock),
        !.graded_by = Some(teacher_id),
        !.student_id = teacher_id]

\* The row grade_submission commits
Graded(submission, payload, teacher_id, clock) ==
    [submission EXCEPT
        !.score = IF ScoreGiven(payload) THEN payload.score ELSE @,
        !.feedback = IF FeedbackGiven(payload) THEN payload.feedback ELSE @,
        !.graded_at = Some(clock),
        !.graded_by = Some(teacher_id)]

\* grade_submission, reached as `op` (update_grade delegates to it)
Grade(op, bearer, submission_id, payload) ==
    LET req == [bearer |-> bearer, submission_id |-> submission_id,
                score |-> payload.score, feedback |-> payload.feedback]
        current == get_current_user(bearer, users, now)
        auth == require_teacher(current)
        submission == Get(submissions, submission_id)
        refused(status) ==
            /\ last' = Response(op, req, status, None)
            /\ UNCHANGED submissions
    IN IF auth # 200 THEN refused(auth)
       ELSE IF submission = None THEN refused(404)
       ELSE LET assignment == Get(assignments, submission[1].assignment_id) IN
            IF assignment = None THEN refused(404)
            ELSE LET lesson == Get(lessons, assignment[1].lesson_id)
                     classroom == IF lesson = None THEN None
                                  ELSE Get(classrooms, lesson[1].classroom_id)
                 IN IF ~ClassroomOwned(classroom, current[1].id)
                    THEN refused(403)
                    ELSE /\ submissions' =
                               [submissions EXCEPT ![submission_id] =
                                   Graded(@, payload, current[1].id, now)]
                         /\ last' = Response(op, req, 200,
                                Some(SubmissionRead(submissions'[submission_id])))

grade_submission ==
    /\ \E bearer \in bearers, submission_id \in IdsOf(submissions),
          payload \in GradeUpdates :
          Grade("grade_submission", bearer, submission_id, payload)
    /\ UNCHANGED <<outside, users, classrooms, enrollments, lessons, assignments,
                   files, now>>

update_grade ==
    /\ \E bearer \in bearers, submission_id \in IdsOf(submissions),
          payload \in GradeUpdates :
          Grade("update_grade", bearer, submission_id, payload)
    /\ UNCHANGED <<outside, users, classrooms, enrollments, lessons, assignments,
                   files, now>>

(***************************************************************************)
(* Grading, from the state of the submission scenario in which both        *)
(* students are enrolled in classroom 1 and student 3 has handed in a text *)
(* for assignment 1 at time 0.                                             *)
(***************************************************************************)
SeedSubmissions ==
    Insert(<<>>, NewSubmission(1, 3, Some("answer"), None, 0))

InitGrading ==
    /\ users = SeedUsers
    /\ classrooms = SeedClassrooms
    /\ enrollments = {EnrollmentRow(1, 3), EnrollmentRow(1, 4)}
    /\ lessons = SeedLessons
    /\ assignments = SeedAssignments
    /\ submissions = SeedSubmissions
    /\ files = {}
    /\ now = 0
    /\ last = NoResponse
    /\ bearers = Bearers
    /\ inflight = <<>>
    /\ startup = Started

NextGrading ==
    \/ grade_submission
    \/ update_grade
    \/ Tick

SpecGrading == InitGrading /\ [][NextGrading]_vars

(***************************************************************************)
(* Claims about grading (SpecGrading).                                     *)
(***************************************************************************)
\* C8: grade submission and update grade by the owning teacher answer 200, set
\* score only when the request carries a score and feedback only when it
\* carries feedback (an omitted field keeps its stored value), and always set
\* graded_at to the current time and graded_by to the caller's id; nothing
\* else of the submission, and no other row, changes.
C8_GradePartialUpdate ==
    [][(/\ RequestStep
        /\ last'.op \in {"grade_submission", "update_grade"}
        /\ ByTeacher(last')
        /\ Get(submissions, last'.req.submission_id) # None
        /\ TeacherOfLesson(Get(assignments,
               Get(submissions, last'.req.submission_id)[1].assignment_id)[1].lesson_id)
             = Some(CallerOf(last')[1].id))
       => LET id == last'.req.submission_id
              old == submissions[id]
              new == submissions'[id]
          IN /\ last'.status = 200
             /\ new.score = IF last'.req.score # None THEN last'.req.score
                            ELSE old.score
             /\ new.feedback = IF last'.req.feedback # None THEN last'.req.feedback
                               ELSE old.feedback
             /\ new.graded_at = Some(now)
             /\ new.graded_by = Some(CallerOf(last')[1].id)
             /\ new = [old EXCEPT !.score = new.score, !.feedback = new.feedback,
                                  !.graded_at = new.graded_at,
                                  !.graded_by = new.graded_by]
             /\ submissions' = [submissions EXCEPT ![id] = new]
             /\ last'.body = Some(new)
             /\ UNCHANGED <<users, classrooms, enrollments, lessons, assignments,
                            files>>]_vars

\* A grade request carrying only feedback, made at time 1 on a submission
\* scored 90 at time 0, kept the score and refreshed graded_at.
C8_Witness ==
    /\ last.op = "update_grade"
    /\ last.status = 200
    /\ last.req.score = None
    /\ last.req.feedback = Some("good")
    /\ now = 1
    /\ submissions[last.req.submission_id].score = Some(90)
    /\ submissions[last.req.submission_id].feedback = Some("good")
    /\ submissions[last.req.submission_id].graded_at = Some(1)
    /\ submissions[last.req.submission_id].graded_by = Some(1)

(***************************************************************************)
(* api/submissions.py create_submission when session.commit() raises: the  *)
(* handler has passed every check and _save_uploaded_file has written the  *)
(* upload; the exception is not caught, the row is not inserted and the    *)
(* request is answered 500.                                                *)
(***************************************************************************)
create_submission_commit_fails ==
    /\ Len(submissions) < MaxSubmissions
    /\ \E bearer \in bearers, assignment_id \in IdsOf(assignments),
          file \in Uploads :
          LET req == [bearer |-> bearer, assignment_id |-> assignment_id,
                      content |-> Some("answer"), file |-> file]
              current == get_current_user(bearer, users, now)
              assignment == Get(assignments, assignment_id)
          IN /\ current # None
             /\ IsStudent(current[1])
             /\ assignment # None
             /\ EnrollmentGate(assignment[1], current[1].id) = 200
             /\ ~(file # None /\ TooLarge(file[1].size))
             /\ files' = IF file = None THEN files
                         ELSE save_uploaded_file(file[1], now)
             /\ last' = Response("create_submission", req, 500, None)
    /\ UNCHANGED <<outside, users, classrooms, enrollments, lessons, assignments,
                   submissions, now>>

NextSubmissionFaults ==
    \/ create_submission
    \/ create_submission_commit_fails
    \/ list_submissions_for_assignment
    \/ get_submission

SpecSubmissionFaults == InitSubmissions /\ [][NextSubmissionFaults]_vars

(***************************************************************************)
(* Claims about failed writes (SpecSubmissionFaults).                      *)
(***************************************************************************)
\* C11: a create submission call that does not answer 201, a failed commit
\* after the file write included, leaves neither a new Submission row nor a
\* new stored file.
C11_CreateSubmissionAllOrNothing ==
    [][(/\ RequestStep
        /\ last'.op = "create_submission"
        /\ last'.status # 201)
       => UNCHANGED <<submissions, files>>]_vars

\* Every refusal the handler raises itself (401, 403, 404, 400) applies nothing.
C11_RefusalsApplyNothing ==
    [][(/\ RequestStep
        /\ last'.op = "create_submission"
        /\ last'.status \in {400, 401, 403, 404})
       => UNCHANGED <<db, files>>]_vars

(***************************************************************************)
(* The startup hook on a database that may refuse any number of            *)
(* connections.                                                            *)
(***************************************************************************)
InitStartup ==
    /\ users = <<>>
    /\ classrooms = <<>>
    /\ enrollments = {}
    /\ lessons = <<>>
    /\ assignments = <<>>
    /\ submissions = <<>>
    /\ files = {}
    /\ now = 0
    /\ last = NoResponse
    /\ bearers = Bearers
    /\ inflight = <<>>
    /\ startup = Starting

NextStartup ==
    \/ create_all_succeeds
    \/ create_all_fails
    \/ sleep
    \/ raise_last_error

SpecStartup == InitStartup /\ [][NextStartup]_vars

\* The hook is a sequential function: it keeps running until it is left
SpecStartupFair == SpecStartup /\ WF_vars(NextStartup)

(***************************************************************************)
(* Claims about the startup hook (SpecStartup).                            *)
(***************************************************************************)
StartupLeft == startup.pc \in {"returned", "raised"}

\* C13: provision schema makes at most 20 table-creation attempts, waits 1
\* second only between consecutive attempts (a run of k attempts has slept
\* k - 1 seconds when it is left), and when all 20 attempts fail it raises the
\* error of the last attempt.
C13_ProvisionSchema ==
    /\ startup.calls <= attempts
    /\ StartupLeft => startup.slept = (startup.calls - 1) * delay_seconds
    /\ startup.pc = "raised" =>
          /\ startup.calls = attempts
          /\ startup.last_error # None
          /\ startup.last_error[1].call = attempts

\* It returns at the first attempt that succeeds without attempting again.
C13_ReturnsAtFirstSuccess ==
    [][/\ (startup.pc = "for" /\ startup'.pc = "returned"
             /\ startup'.calls = startup.calls + 1)
          => startup'.slept = startup.calls * delay_seconds
       /\ StartupLeft => startup' = startup]_vars

\* What the loop does: one sleep after every failed attempt, the last included.
C13_SleepsAfterEveryFailure ==
    /\ startup.calls <= attempts
    /\ startup.pc = "returned" =>
          startup.slept = (startup.calls - 1) * delay_seconds
    /\ startup.pc = "raised" =>
          /\ startup.calls = attempts
          /\ startup.slept = attempts * delay_seconds
          /\ startup.last_error # None
          /\ startup.last_error[1].call = attempts

\* Provision schema terminates (SpecStartupFair).
C13_Terminates == <>StartupLeft

(***************************************************************************)
(* The teacher-only handlers (Depends(require_teacher)) asked by clients   *)
(* that are no teacher: no Authorization header, a token that does not     *)
(* decode, a token without sub, with a sub that is no integer, with a sub  *)
(* naming no user, the token of a login that has expired, and the tokens   *)
(* of the two students.  Teacher 1 has a classroom with student 3 enrolled,*)
(* a lesson and an assignment in it, and student 3 has handed in a text.   *)
(***************************************************************************)
ExpiredBearer ==
    Some(LoginToken(SeedUsers[1], 0 - ACCESS_TOKEN_EXPIRE_MINUTES - 1))

StudentBearers ==
    {Some(LoginToken(SeedUsers[i], 0)) :
        i \in {j \in 1..Len(SeedUsers) : SeedUsers[j].role = STUDENT}}

InitTeacherOnly ==
    /\ users = SeedUsers
    /\ classrooms = Insert(<<>>, NewClassroom(1))
    /\ enrollments = {EnrollmentRow(1, 3)}
    /\ lessons = Insert(<<>>, NewLesson(1))
    /\ assignments = Insert(<<>>, NewAssignment(1))
    /\ submissions = SeedSubmissions
    /\ files = {}
    /\ now = 0
    /\ last = NoResponse
    /\ bearers = BadBearers \cup {ExpiredBearer} \cup StudentBearers
    /\ inflight = <<>>
    /\ startup = Started

NextTeacherOnly ==
    \/ create_classroom
    \/ list_classrooms
    \/ get_classroom
    \/ enroll_student
    \/ create_lesson
    \/ list_lessons_for_classroom
    \/ create_assignment
    \/ list_assignments_for_lesson
    \/ get_assignment
    \/ grade_submission
    \/ update_grade

SpecTeacherOnly == InitTeacherOnly /\ [][NextTeacherOnly]_vars

(***************************************************************************)
(* Claims about the order of the guards (SpecTeacherOnly).                 *)
(***************************************************************************)
TeacherOnlyOps ==
    {"create_classroom", "list_classrooms", "get_classroom", "enroll_student",
     "create_lesson", "list_lessons_for_classroom", "create_assignment",
     "list_assignments_for_lesson", "get_assignment", "grade_submission",
     "update_grade"}

AllDigits(s) ==
    Len(s) > 0 /\ \A i \in 1..Len(s) : \E d \in 1..Len(DigitChars) : s[i] = DigitChars[d]

\* The bearer is missing, undecodable, expired, lacks sub, has a sub that is
\* no integer, or names a user id that does not exist
IdentityUnresolved(bearer) ==
    \/ bearer = None
    \/ /\ bearer # None
       /\ \/ ~bearer[1].signed
          \/ bearer[1].exp < now
          \/ bearer[1].sub = None
          \/ /\ bearer[1].sub # None
             /\ \/ ~AllDigits(bearer[1].sub[1])
                \/ /\ AllDigits(bearer[1].sub[1])
                   /\ DigitsToInt(bearer[1].sub[1]) \notin 1..Len(users)

\* C12: on every teacher-only operation a request whose identity does not
\* resolve is answered 401, never 403, a request with the valid token of a
\* STUDENT is answered 403, and neither changes any state.
C12_IdentityBeforeRole ==
    [][(RequestStep /\ last'.op \in TeacherOnlyOps)
       => LET bearer == last'.req.bearer IN
          /\ IdentityUnresolved(bearer) =>
                last'.status = 401 /\ UNCHANGED <<db, files>>
          /\ (/\ ~IdentityUnresolved(bearer)
              /\ users[DigitsToInt(bearer[1].sub[1])].role = STUDENT) =>
                last'.status = 403 /\ UNCHANGED <<db, files>>]_vars

\* The expired token of teacher 1 was refused 401 by grade submission on the
\* existing submission.
C12_Witness ==
    /\ last.op = "grade_submission"
    /\ last.req.bearer = ExpiredBearer
    /\ Get(submissions, last.req.submission_id) # None
    /\ last.status = 401
    /\ db = <<SeedUsers, Insert(<<>>, NewClassroom(1)), {EnrollmentRow(1, 3)},
              Insert(<<>>, NewLesson(1)), Insert(<<>>, NewAssignment(1)),
              SeedSubmissions>>

\* The token of student 3 was refused 403 by create classroom.
C12_StudentWitness ==
    /\ last.op = "create_classroom"
    /\ last.req.bearer \in StudentBearers
    /\ last.status = 403
    /\ Len(classrooms) = 1

(***************************************************************************)
(* Claims about the teacher side of submission listing (SpecSubmissions).  *)
(***************************************************************************)
\* A TEACHER listed the submissions of an existing assignment whose lesson is
\* in another teacher's classroom
ForeignTeacherListed(resp) ==
    /\ resp.op = "list_submissions_for_assignment"
    /\ CallerOf(resp) # None
    /\ CallerOf(resp)[1].role = TEACHER
    /\ Get(assignments, resp.req.assignment_id) # None
    /\ TeacherOfLesson(Get(assignments, resp.req.assignment_id)[1].lesson_id)
          # Some(CallerOf(resp)[1].id)

UpperLetters ==
    <<"A", "B", "C", "D", "E", "F", "G", "H", "I", "J", "K", "L", "M",
      "N", "O", "P", "Q", "R", "S", "T", "U", "V", "W", "X", "Y", "Z">>

LowerLetters ==
    <<"a", "b", "c", "d", "e", "f", "g", "h", "i", "j", "k", "l", "m",
      "n", "o", "p", "q", "r", "s", "t", "u", "v", "w", "x", "y", "z">>

\* The characters str.strip() removes
Whitespace == {" ", "\t", "\n", "\r"}

LowerChar(c) ==
    IF \E i \in 1..Len(UpperLetters) : UpperLetters[i] = c
    THEN LowerLetters[CHOOSE i \in 1..Len(UpperLetters) : UpperLetters[i] = c]
    ELSE c

\* str.lower()
Lower(s) == [i \in 1..Len(s) |-> LowerChar(s[i])]

\* str.strip(): whitespace goes from both ends, never from the middle
RECURSIVE Strip(_)
Strip(s) ==
    IF Len(s) = 0 THEN s
    ELSE IF s[1] \in Whitespace THEN Strip(Tail(s))
    ELSE IF s[Len(s)] \in Whitespace THEN Strip(SubSeq(s, 1, Len(s) - 1))
    ELSE s

\* {"1", "true", "yes", "y", "on"}
TrueWords ==
    {<<"1">>, <<"t", "r", "u", "e">>, <<"y", "e", "s">>, <<"y">>, <<"o", "n">>}

\* A parser that compares the raw value without trimming it
get_bool_untrimmed(raw, default) ==
    IF raw = None THEN default
    ELSE Lower(raw[1]) \in TrueWords

\* _get_bool(name, default), raw being os.getenv(name)
get_bool(raw, default) ==
    IF raw = None THEN default
    ELSE Lower(Strip(raw[1])) \in TrueWords

\* The values the environment variable holds in the model: words that are
\* true, words that are not, each in lower case, in upper case and
\* capitalised, bare or padded with whitespace on either side
EnvWords ==
    TrueWords \cup
    {<<"0">>, <<"f", "a", "l", "s", "e">>, <<"n", "o">>, <<"o", "f", "f">>,
     <<>>, <<"t">>, <<"o", "n", "e">>, <<"1", "1">>, <<"o", " ", "n">>}

Upper(s) ==
    [i \in 1..Len(s) |->
        IF \E k \in 1..Len(LowerLetters) : LowerLetters[k] = s[i]
        THEN UpperLetters[CHOOSE k \in 1..Len(LowerLetters) : LowerLetters[k] = s[i]]
        ELSE s[i]]

Capitalised(s) ==
    IF Len(s) = 0 THEN s ELSE Upper(SubSeq(s, 1, 1)) \o Tail(s)

Paddings == {<<>>, <<" ">>, <<"\t">>, <<"\n", " ">>}

EnvValues ==
    {None} \cup
    {Some(left \o word \o right) :
        left \in Paddings, right \in Paddings,
        word \in EnvWords \cup {Upper(w) : w \in EnvWords}
                          \cup {Capitalised(w) : w \in EnvWords}}

\* Settings reads a boolean field: _get_bool("DEBUG", True) and, for a field
\* whose default is False, _get_bool(name, False)
read_bool_setting ==
    /\ \E raw \in EnvValues, default \in BOOLEAN :
          last' = Response("_get_bool", [raw |-> raw, default |-> default],
                           200, Some(get_bool(raw, default)))
    /\ UNCHANGED <<outside, db, files, now>>

NextConfig == read_bool_setting

SpecConfig == InitStartup /\ [][NextConfig]_vars

(***************************************************************************)
(* Claims about configuration parsing (SpecConfig).                        *)
(***************************************************************************)
\* The value is one of 1, true, yes, y, on, in lower case, in upper case or
\* capitalised, with or without whitespace around it
SaysTrue(raw) ==
    /\ raw # None
    /\ \E left \in Paddings, right \in Paddings, word \in TrueWords :
          \/ raw[1] = left \o word \o right
          \/ raw[1] = left \o Upper(word) \o right
          \/ raw[1] = left \o Capitalised(word) \o right

\* C15 as claimed: boolean parsing returns true when the trimmed, lower-cased
\* value is one of 1, true, yes, y, on, and the field's default both when the
\* variable is absent and when it holds any other value.
C15_OtherValuesFallBackToDefault ==
    last.op = "_get_bool" =>
        last.body = Some(IF SaysTrue(last.req.raw) THEN TRUE
                         ELSE last.req.default)

\* C15 as amended: it returns true for those values, the field's default only
\* when the variable is absent, and false when it holds any other value.
C15_OtherValuesAreFalse ==
    last.op = "_get_bool" =>
        last.body = Some(IF last.req.raw = None THEN last.req.default
                         ELSE SaysTrue(last.req.raw))

\* DEBUG (default true) set to " TRUE\n " with whitespace around was read as
\* true into a field whose default is false.
C15_Witness ==
    /\ last.op = "_get_bool"
    /\ last.req.raw = Some(<<" ", "T", "R", "U", "E", "\n", " ">>)
    /\ last.req.default = FALSE
    /\ last.body = Some(TRUE)

\* DEBUG (default true) set to "0" was read as false.
C15_FalseWitness ==
    /\ last.op = "_get_bool"
    /\ last.req.raw = Some(<<"0">>)
    /\ last.req.default = TRUE
    /\ last.body = Some(FALSE)

(***************************************************************************)
(* Concurrent requests.  FastAPI runs the handlers (plain def) on a thread *)
(* pool, each with its own session: between a handler's read and its      *)
(* commit other handlers run.  inflight is the sequence of the requests    *)
(* accepted so far, each with its position: "read" before the existence    *)
(* check, "commit" between the check and session.commit(), "done" once     *)
(* answered, with the status it was answered.                              *)
(***************************************************************************)
MaxInflight == 2

InflightRequest(op, req) == [op |-> op, req |-> req, pc |-> "read", status |-> 0]

Answered(r, status) == [inflight EXCEPT ![r].pc = "done", ![r].status = status]

\* A User table without the unique index on email
EmailNotConstrained(email) == TRUE

\* Column(AutoString, unique=True, index=True): the insert of a second row
\* with the email raises IntegrityError
EmailUnique(email) == \A i \in 1..Len(users) : users[i].email # email

\* A registration request arrives
accept_register ==
    /\ Len(inflight) < MaxInflight
    /\ \E op \in RegisterOps, email \in Emails, role \in UserRole :
          /\ op = "register_student" => role = STUDENT
          /\ op = "register_teacher" => role = TEACHER
          /\ inflight' = Append(inflight,
                             InflightRequest(op, UserCreate(email, PwMin, role)))
    /\ UNCHANGED <<db, files, now, last, bearers, startup>>

\* register_user up to the existence check: session.exec(select(User)...).first()
register_read ==
    /\ \E r \in 1..Len(inflight) :
          /\ inflight[r].op \in RegisterOps
          /\ inflight[r].pc = "read"
          /\ inflight' = IF EmailTaken(inflight[r].req)
                         THEN Answered(r, 400)
                         ELSE [inflight EXCEPT ![r].pc = "commit"]
    /\ UNCHANGED <<db, files, now, last, bearers, startup>>

\* register_user from session.add(user) on: the commit inserts the row or
\* raises IntegrityError, which no handler catches (500)
register_commit ==
    /\ \E r \in 1..Len(inflight) :
          /\ inflight[r].op \in RegisterOps
          /\ inflight[r].pc = "commit"
          /\ IF EmailUnique(inflight[r].req.email)
             THEN /\ users' = Insert(users, NewUser(inflight[r].req))
                  /\ inflight' = Answered(r, 201)
             ELSE /\ UNCHANGED users
                  /\ inflight' = Answered(r, 500)
    /\ UNCHANGED <<classrooms, enrollments, lessons, assignments, submissions,
                   files, now, last, bearers, startup>>

NextConcurrentRegistration ==
    \/ accept_register
    \/ register_read
    \/ register_commit

SpecConcurrentRegistration == Init /\ [][NextConcurrentRegistration]_vars

(***************************************************************************)
(* Claims about concurrent registration (SpecConcurrentRegistration).      *)
(***************************************************************************)
\* C16: in every reachable state, those reached by interleaving the
\* existence reads and the commits of concurrent registrations with the same
\* email included, no two User rows have the same email, and at most one of
\* the requests with one email has been answered success.
C16_EmailUniqueUnderConcurrency ==
    /\ \A i, j \in 1..Len(users) : users[i].email = users[j].email => i = j
    /\ \A r, q \in 1..Len(inflight) :
          (/\ inflight[r].op \in RegisterOps
           /\ inflight[q].op \in RegisterOps
           /\ inflight[r].req.email = inflight[q].req.email
           /\ inflight[r].status = 201
           /\ inflight[q].status = 201) => r = q
    /\ \A r \in 1..Len(inflight) :
          (inflight[r].op \in RegisterOps /\ inflight[r].status = 201) =>
             \E i \in 1..Len(users) :
                /\ users[i].email = inflight[r].req.email
                /\ users[i].role = inflight[r].req.role

\* Two registrations with one email both passed the existence check before
\* either committed: the first commit was answered 201, the second 500, and
\* the table holds one row with the email.
C16_Witness ==
    \E r, q \in 1..Len(inflight) :
        /\ inflight[r].op \in RegisterOps
        /\ inflight[q].op \in RegisterOps
        /\ inflight[r].req.email = inflight[q].req.email
        /\ inflight[r].status = 201
        /\ inflight[q].status = 500
        /\ Cardinality({i \in 1..Len(users) :
                            users[i].email = inflight[r].req.email}) = 1

(***************************************************************************)
(* Concurrent enroll requests of teacher 1, who owns classroom 1.          *)
(***************************************************************************)
\* An enroll request arrives
accept_enroll ==
    /\ Len(inflight) < MaxInflight
    /\ \E bearer \in bearers, classroom_id \in IdsOf(classrooms),
          student_id \in EnrollChoices :
          inflight' = Append(inflight,
                         InflightRequest("enroll_student",
                             [bearer |-> bearer, classroom_id |-> classroom_id,
                              student_id |-> student_id]))
    /\ UNCHANGED <<db, files, now, last, bearers, startup>>

\* enroll_student up to the existence check session.get(ClassroomEnrollment, ...)
enroll_read ==
    /\ \E r \in 1..Len(inflight) :
          LET req == inflight[r].req
              current == get_current_user(req.bearer, users, now)
              auth == require_teacher(current)
              classroom == Get(classrooms, req.classroom_id)
              student == Get(users, req.student_id)
          IN /\ inflight[r].op = "enroll_student"
             /\ inflight[r].pc = "read"
             /\ inflight' =
                   IF auth # 200 THEN Answered(r, auth)
                   ELSE IF ~ClassroomOwned(classroom, current[1].id)
                   THEN Answered(r, 404)
                   ELSE IF student = None \/ student[1].role # STUDENT
                   THEN Answered(r, 400)
                   ELSE IF AlreadyEnrolled(req.classroom_id, req.student_id)
                   THEN Answered(r, 204)
                   ELSE [inflight EXCEPT ![r].pc = "commit"]
    /\ UNCHANGED <<db, files, now, last, bearers, startup>>

\* enroll_student from session.add(enrollment) on: the commit inserts the row
\* or violates the primary key (classroom_id, student_id): IntegrityError,
\* which no handler catches (500)
enroll_commit ==
    /\ \E r \in 1..Len(inflight) :
          LET row == EnrollmentRow(inflight[r].req.classroom_id,
                                   inflight[r].req.student_id)
          IN /\ inflight[r].op = "enroll_student"
             /\ inflight[r].pc = "commit"
             /\ IF row \in enrollments
                THEN /\ UNCHANGED enrollments
                     /\ inflight' = Answered(r, 500)
                ELSE /\ enrollments' = enrollments \cup {row}
                     /\ inflight' = Answered(r, 204)
    /\ UNCHANGED <<users, classrooms, lessons, assignments, submissions,
                   files, now, last, bearers, startup>>

InitConcurrentEnrollment ==
    /\ users = SeedUsers
    /\ classrooms = Insert(<<>>, NewClassroom(1))
    /\ enrollments = {}
    /\ lessons = <<>>
    /\ assignments = <<>>
    /\ submissions = <<>>
    /\ files = {}
    /\ now = 0
    /\ last = NoResponse
    /\ bearers = {Some(LoginToken(SeedUsers[1], 0))}
    /\ inflight = <<>>
    /\ startup = Started

NextConcurrentEnrollment ==
    \/ accept_enroll
    \/ enroll_read
    \/ enroll_commit

SpecConcurrentEnrollment ==
    InitConcurrentEnrollment /\ [][NextConcurrentEnrollment]_vars

(***************************************************************************)
(* Claims about concurrent enrollment (SpecConcurrentEnrollment).          *)
(***************************************************************************)
\* The owning teacher asked to enroll a STUDENT and has been answered
OwnerEnrollAnswered(r) ==
    LET req == inflight[r].req
        current == get_current_user(req.bearer, users, now)
    IN /\ inflight[r].op = "enroll_student"
       /\ inflight[r].pc = "done"
       /\ current # None
       /\ Get(classrooms, req.classroom_id) # None
       /\ Get(classrooms, req.classroom_id)[1].teacher_id = current[1].id
       /\ Get(users, req.student_id) # None
       /\ Get(users, req.student_id)[1].role = STUDENT

\* C17: in every reachable state, those reached by interleaving the
\* existence reads and the commits of concurrent enroll requests for one
\* (classroom, student) pair included, there is at most one enrollment row per
\* pair, and every such request by the owning teacher is answered success (no
\* content).
C17_EnrollIdempotentUnderConcurrency ==
    /\ \A a, b \in enrollments :
          (a.classroom_id = b.classroom_id /\ a.student_id = b.student_id)
             => a = b
    /\ \A r \in 1..Len(inflight) :
          OwnerEnrollAnswered(r) => inflight[r].status = 204

\* At most one enrollment row per pair, each request of the owner answered
\* 204 or, when it lost the race between its read and its commit, 500; a
\* request answered 204 leaves the pair enrolled.
C17_OneRowPerPair ==
    /\ \A a, b \in enrollments :
          (a.classroom_id = b.classroom_id /\ a.student_id = b.student_id)
             => a = b
    /\ \A r \in 1..Len(inflight) :
          OwnerEnrollAnswered(r) =>
             /\ inflight[r].status \in {204, 500}
             /\ EnrollmentRow(inflight[r].req.classroom_id,
                              inflight[r].req.student_id) \in enrollments

(***************************************************************************)
(* Three moments of a term, with every handler of classrooms, lessons,     *)
(* assignments, submissions and grading open to the client of the moment:  *)
(*   - teacher 1, who has a classroom with a lesson and an assignment,     *)
(*     sets up more;                                                       *)
(*   - student 3, enrolled in classroom 1 (student 4 in classroom 2 of     *)
(*     teacher 2), hands in;                                               *)
(*   - teacher 1 grades, student 3 having handed in for assignment 1 and   *)
(*     student 4 for assignment 2 of teacher 2.                            *)
(***************************************************************************)
SeedSubmissionsBoth ==
    Insert(SeedSubmissions, NewSubmission(2, 4, Some("answer"), None, 0))

InitTerm ==
    /\ users = SeedUsers
    /\ files = {}
    /\ now = 0
    /\ last = NoResponse
    /\ inflight = <<>>
    /\ startup = Started
    /\ \/ /\ bearers = {Some(LoginToken(SeedUsers[1], 0))}
          /\ classrooms = Insert(<<>>, NewClassroom(1))
          /\ enrollments = {}
          /\ lessons = Insert(<<>>, NewLesson(1))
          /\ assignments = Insert(<<>>, NewAssignment(1))
          /\ submissions = <<>>
       \/ /\ bearers = {Some(LoginToken(SeedUsers[3], 0))}
          /\ classrooms = SeedClassrooms
          /\ enrollments = {EnrollmentRow(1, 3), EnrollmentRow(2, 4)}
          /\ lessons = SeedLessons
          /\ assignments = SeedAssignments
          /\ submissions = <<>>
       \/ /\ bearers = {Some(LoginToken(SeedUsers[1], 0))}
          /\ classrooms = SeedClassrooms
          /\ enrollments = {EnrollmentRow(1, 3), EnrollmentRow(2, 4)}
          /\ lessons = SeedLessons
          /\ assignments = SeedAssignments
          /\ submissions = SeedSubmissionsBoth

NextTerm ==
    \/ create_classroom
    \/ list_classrooms
    \/ get_classroom
    \/ enroll_student
    \/ create_lesson
    \/ list_lessons_for_classroom
    \/ create_assignment
    \/ list_assignments_for_lesson
    \/ get_assignment
    \/ create_submission
    \/ list_submissions_for_assignment
    \/ get_submission
    \/ grade_submission
    \/ update_grade

SpecTerm == InitTerm /\ [][NextTerm]_vars

(***************************************************************************)
(* Claims about the rows over a term (SpecTerm).                           *)
(***************************************************************************)
GradeOps == {"grade_submission", "update_grade"}

\* The teacher who owns the classroom reached by submission -> assignment ->
\* lesson -> classroom (None for a broken chain)
TeacherOfSubmission(submission) ==
    LET assignment == Get(assignments, submission.assignment_id) IN
    IF assignment = None THEN None
    ELSE TeacherOfLesson(assignment[1].lesson_id)

GradingFieldsConsistent ==
    \A i \in 1..Len(submissions) :
        LET s == submissions[i] IN
        /\ (s.graded_at = None) <=> (s.graded_by = None)
        /\ s.graded_at = None => (s.score = None /\ s.feedback = None)
        /\ s.graded_by # None => s.graded_by = TeacherOfSubmission(s)

ForeignGradeRefused ==
    (/\ RequestStep
     /\ last'.op \in GradeOps
     /\ ByTeacher(last')
     /\ Get(submissions, last'.req.submission_id) # None
     /\ TeacherOfSubmission(submissions[last'.req.submission_id])
           # Some(CallerOf(last')[1].id))
    => /\ last'.status = 403
       /\ UNCHANGED submissions

\* C18: in every reachable state, for every Submission graded_at and graded_by
\* are both absent or both present, score and feedback are absent whenever
\* graded_at is absent, and graded_by, when present, is the id of the teacher
\* who owns the classroom reached by submission -> assignment -> lesson ->
\* classroom; a grade call by any other teacher is answered 403 and leaves the
\* submissions unchanged.
C18_GradingFields == []GradingFieldsConsistent /\ [][ForeignGradeRefused]_vars

\* Teacher 1 has graded the submission in classroom 1 and has just been
\* refused 403 on the submission in classroom 2 of teacher 2, still ungraded.
C18_Witness ==
    /\ Len(submissions) = 2
    /\ submissions[1].graded_by = Some(1)
    /\ submissions[1].graded_at # None
    /\ submissions[1].score = Some(90)
    /\ TeacherOfSubmission(submissions[2]) = Some(2)
    /\ submissions[2].graded_at = None
    /\ submissions[2].graded_by = None
    /\ last.op \in GradeOps
    /\ last.req.submission_id = 2
    /\ last.status = 403

\* The rows a table held are all still there, unchanged, in the same places
RowsKept(before, after) ==
    /\ Len(after) >= Len(before)
    /\ SubSeq(after, 1, Len(before)) = before

\* C19: no operation changes or deletes an existing User, Classroom,
\* ClassroomEnrollment, Lesson or Assignment row; a Submission is never
\* deleted, and only grade submission and update grade modify one, touching
\* only score, feedback, graded_at and graded_by.
C19_RowsAreKept ==
    [][/\ RowsKept(users, users')
       /\ RowsKept(classrooms, classrooms')
       /\ enrollments \subseteq enrollments'
       /\ RowsKept(lessons, lessons')
       /\ RowsKept(assignments, assignments')
       /\ Len(submissions') >= Len(submissions)
       /\ \A i \in 1..Len(submissions) :
             LET old == submissions[i]
                 new == submissions'[i]
             IN /\ new = [old EXCEPT !.score = new.score,
                                     !.feedback = new.feedback,
                                     !.graded_at = new.graded_at,
                                     !.graded_by = new.graded_by]
                /\ new # old =>
                      /\ last'.op \in GradeOps
                      /\ last'.status = 200
                      /\ last'.req.submission_id = i]_vars

\* The same for the users table under the handlers that write it: register
\* only appends (checked under SpecAuth).
C19_UsersAreKept == [][RowsKept(users, users')]_vars

\* Teacher 1 has added a classroom, a lesson and an assignment to the ones
\* the term started with, which are still the rows they were.
C19_Witness ==
    /\ last.op = "create_assignment"
    /\ last.status = 201
    /\ Len(classrooms) = 2
    /\ Len(lessons) = 2
    /\ Len(assignments) = 2
    /\ classrooms[1] = Insert(<<>>, NewClassroom(1))[1]
    /\ lessons[1] = Insert(<<>>, NewLesson(1))[1]
    /\ assignments[1] = Insert(<<>>, NewAssignment(1))[1]
    /\ assignments[1].max_score = 100
    /\ assignments[1].is_published
    /\ users = SeedUsers

\* Teacher 1 has graded the submission of student 3, whose assignment,
\* student, time, content and file are the ones it was handed in with.
C19_GradedWitness ==
    /\ last.op \in GradeOps
    /\ last.status = 200
    /\ submissions[1].graded_by = Some(1)
    /\ submissions[1] = [SeedSubmissionsBoth[1] EXCEPT
                            !.score = submissions[1].score,
                            !.feedback = submissions[1].feedback,
                            !.graded_at = submissions[1].graded_at,
                            !.graded_by = submissions[1].graded_by]
    /\ submissions[2] = SeedSubmissionsBoth[2]

\* C20: in every reachable state, for every Submission row the student_id is
\* a user with role STUDENT, the assignment exists, and an enrollment row
\* exists for (classroom of the assignment's lesson, student_id).
C20_SubmissionsByEnrolledStudents ==
    \A i \in 1..Len(submissions) :
        LET s == submissions[i]
            student == Get(users, s.student_id)
            assignment == Get(assignments, s.assignment_id)
        IN /\ student # None
           /\ student[1].role = STUDENT
           /\ assignment # None
           /\ Get(lessons, assignment[1].lesson_id) # None
           /\ EnrollmentRow(Get(lessons, assignment[1].lesson_id)[1].classroom_id,
                            s.student_id) \in enrollments

\* Student 3, enrolled in classroom 1, has handed in for assignment 1, and
\* has just been refused 403 for assignment 2 in classroom 2.
C20_Witness ==
    /\ Len(submissions) = 1
    /\ submissions[1].student_id = 3
    /\ submissions[1].assignment_id = 1
    /\ EnrollmentRow(1, 3) \in enrollments
    /\ EnrollmentRow(2, 3) \notin enrollments
    /\ last.op = "create_submission"
    /\ last.req.assignment_id = 2
    /\ last.status = 403

(***************************************************************************)
(* Claims about the order of the checks of enroll student (SpecClassrooms).*)
(***************************************************************************)
\* The student id of an enroll request names a user with role STUDENT
NamesStudent(resp) ==
    /\ Get(users, resp.req.student_id) # None
    /\ Get(users, resp.req.student_id)[1].role = STUDENT

\* Every enrollment row references an existing classroom and a STUDENT user
EnrollmentsReferToStudents ==
    \A e \in enrollments :
        /\ Get(classrooms, e.classroom_id) # None
        /\ Get(users, e.student_id) # None
        /\ Get(users, e.student_id)[1].role = STUDENT

\* An enroll request of a teacher is answered 404 when the classroom is not
\* the caller's, whatever the student id, and 400 when the classroom is the
\* caller's and the student id names no STUDENT; neither inserts a row.
EnrollChecksOwnershipFirst ==
    (/\ RequestStep
     /\ last'.op = "enroll_student"
     /\ ByTeacher(last'))
    => /\ ~OnOwnClassroom(last')
          => (last'.status = 404 /\ UNCHANGED <<db, files>>)
       /\ (OnOwnClassroom(last') /\ ~NamesStudent(last'))
          => (last'.status = 400 /\ UNCHANGED <<db, files>>)

\* C21: enroll student checks classroom ownership before the student id: for
\* a classroom the caller owns it answers 400 and inserts no row when the
\* student id names no user or a user whose role is not STUDENT, for a
\* classroom the caller does not own it answers 404 whatever the student id,
\* and every enrollment row in every reachable state references an existing
\* classroom and a user with role STUDENT.
C21_EnrollChecksOwnershipThenStudent ==
    []EnrollmentsReferToStudents /\ [][EnrollChecksOwnershipFirst]_vars

\* With student 3 enrolled in classroom 1 of teacher 1, teacher 2 has asked to
\* enroll an id that names no user into classroom 1 and was answered 404.
C21_Witness ==
    /\ last.op = "enroll_student"
    /\ last.status = 404
    /\ CallerOf(last) # None
    /\ CallerOf(last)[1].id = 2
    /\ Get(classrooms, last.req.classroom_id) # None
    /\ classrooms[last.req.classroom_id].teacher_id = 1
    /\ Get(users, last.req.student_id) = None
    /\ enrollments = {EnrollmentRow(1, 3)}

\* Teacher 1 has asked to enroll a teacher into the classroom they own and
\* was answered 400, with no row inserted.
C21_BadRequestWitness ==
    /\ last.op = "enroll_student"
    /\ last.status = 400
    /\ CallerOf(last) # None
    /\ CallerOf(last)[1].id = 1
    /\ Get(classrooms, last.req.classroom_id) # None
    /\ classrooms[last.req.classroom_id].teacher_id = 1
    /\ Get(users, last.req.student_id) # None
    /\ Get(users, last.req.student_id)[1].role = TEACHER
    /\ enrollments = {}

(***************************************************************************)
(* The whole service: every handler, from the empty database, with the     *)
(* startup hook, the settings and the requests served concurrently.        *)
(***************************************************************************)
Next ==
    \/ NextAuth
    \/ NextClassrooms
    \/ NextAssignments
    \/ NextSubmissions
    \/ NextGrading
    \/ create_submission_commit_fails
    \/ NextStartup
    \/ NextConfig
    \/ NextConcurrentRegistration
    \/ NextConcurrentEnrollment

Spec == Init /\ [][Next]_vars

====
